---- MODULE Spec2Model ----
(***************************************************************************)
(* A model of the ship HTTP routing library: the graceful Runner           *)
(* (src/unnamed/part_002) and the Route builder (src/route.go).            *)
(*                                                                         *)
(* Spec      : the Runner, its goroutines and its callers.                 *)
(* RouteSpec : the Route builder, registration and request dispatch.       *)
(***************************************************************************)
EXTENDS Integers, Sequences, FiniteSets, TLC

(***************************************************************************)
(* Bounds of the model.                                                    *)
(***************************************************************************)
\* user hooks registered with RegisterOnShutdown
MaxHooks == 2
\* calls of Stop and Shutdown made by the callers
MaxOps == 2

(***************************************************************************)
(* The Runner: threads of control.                                         *)
(*   main : the goroutine that calls Start (and so the deferred Stop)      *)
(*   sig  : the goroutine of handleSignals                                 *)
(*   c1   : an application goroutine calling Stop and Shutdown             *)
(*   w1   : an application goroutine calling Wait                          *)
(*   cb   : of the goroutines http.Server.Shutdown starts for its          *)
(*          on-shutdown callback r.Stop, the one that finds r.shut idle    *)
(*          (cbPending counts those that still may)                        *)
(***************************************************************************)
Callers == {"c1"}
Waiters == {"w1"}
\* the goroutines that may call Wait when several of them wait at once
AllWaiters == Waiters \cup {"w2"}
Cbs == {"cb"}
Threads == {"main", "sig"} \cup Callers \cup AllWaiters \cup Cbs

\* r.Server == nil
NoServer == [set |-> FALSE, handler |-> FALSE, addr |-> ""]
\* the addresses a pre-set Server may carry; Start is called with StartAddr
Addrs == {"", "a", "b"}
StartAddr == "a"

\* the hook startServer registers (the shutdown log message)
LogHook == 0
UserHooks == 1..MaxHooks
HookIds == {LogHook} \cup UserHooks

VARIABLES
    rHandler,    \* Runner.Handler # nil
    server,      \* Runner.Server: NoServer, or [set, handler, addr]
    stopfs,      \* Runner.stopfs: the hooks, in registration order
    hook,        \* per hook: its OnceRunner state and how often its function ran
    shut,        \* Runner.shut: OnceRunner(runShutdown)
    stop,        \* Runner.stop: OnceRunner(runStopfs)
    done,        \* Runner.done is closed
    closes,      \* how many times close(r.done) was executed
    onShutdown,  \* callbacks registered on http.Server (r.Stop)
    inShutdown,  \* http.Server has begun shutting down
    cbPending,   \* callback goroutines started while r.shut was idle that have
                 \* not yet called r.shut.Run()
    srvReturned, \* a call of http.Server.Shutdown has returned
    pc,          \* per thread: where it is
    viaShut,     \* per thread: it is inside r.shut.Run(), in runShutdown
    len,         \* per thread: _len of runStopfs
    err,         \* per thread: the error its last Shutdown call returned
    mainPanic,   \* Start panicked: "none", "addr", "handler"
    served,      \* the serving call (ListenAndServe) was made
    hlog,        \* history: the hook events, <<"begin"|"end", hook>>
    seqLen,      \* history: len(r.stopfs) when runStopfs began, -1 before
    trig,        \* history: a shutdown trigger occurred on the started runner
    callStarted, \* history: the runner was started when c1's last call began
    ops          \* history: calls of Stop and Shutdown made by the callers

rvars == <<rHandler, server, stopfs, hook, shut, stop, done, closes, onShutdown,
           inShutdown, cbPending, srvReturned, pc, viaShut, len, err,
           mainPanic, served, hlog, seqLen, trig, callStarted, ops>>

\* the state of the Route builder and of the route table
VARIABLES
    routes,   \* per Route: host, path, name, mdwares and headers
    table,    \* the Ship's route table: per registered (host, method, path)
              \* the name and the handler, and as history the Route and its
              \* mdwares and headers when it was registered
    resp,     \* the last request served and its response
    rpanic,   \* a builder call panicked: "none" or the reason
    calls,    \* the builder calls made so far
    groups,   \* per Group: prefix and mdwares
    lastCall  \* history: the last method-selection call or call on a
              \* Group, its number among the builder calls and its arguments

routevars == <<routes, table, resp, rpanic, calls, groups, lastCall>>

(***************************************************************************)
(* OnceRunner: a one-shot guard. The first caller of Run executes the task;*)
(* a caller arriving while it runs waits for it; a later caller returns.   *)
(***************************************************************************)
OnceIdle(o) == o = "idle"
OnceBusy(o) == o = "running"
OnceDone(o) == o = "done"

\* Start has been called
StartCalled == pc["main"] # "created"
\* Start has passed its validation and startServer has registered with the
\* server
Started == StartCalled /\ pc["main"] # "startServer" /\ mainPanic = "none"

RInit ==
    /\ rHandler \in BOOLEAN
    /\ server \in {NoServer} \cup
                  [set : {TRUE}, handler : BOOLEAN, addr : Addrs]
    /\ stopfs = <<>>
    /\ hook = [h \in HookIds |-> [st |-> "idle", runs |-> 0]]
    /\ shut = "idle"
    /\ stop = "idle"
    /\ done = FALSE
    /\ closes = 0
    /\ onShutdown = 0
    /\ inShutdown = FALSE
    /\ cbPending = 0
    /\ srvReturned = FALSE
    /\ pc = [t \in Threads |->
               CASE t = "main" -> "created"
                 [] t = "sig" -> "unborn"
                 [] t \in Cbs -> "unborn"
                 [] OTHER -> "idle"]
    /\ viaShut = [t \in Threads |-> FALSE]
    /\ len = [t \in Threads |-> 0]
    /\ err = [t \in Threads |-> "nil"]
    /\ mainPanic = "none"
    /\ served = FALSE
    /\ hlog = <<>>
    /\ seqLen = -1
    /\ trig = FALSE
    /\ callStarted = FALSE
    /\ ops = 0

(***************************************************************************)
(* Runner.RegisterOnShutdown: append one OnceRunner per function.          *)
(***************************************************************************)
RegisterOnShutdown(fs, f) == Append(fs, f)

\* the user hooks not registered yet
FreshHooks == {h \in UserHooks : \A i \in 1..Len(stopfs) : stopfs[i] # h}

\* runStopfs: _len runs from len(r.stopfs)-1 down to 0 (here Len(fs) down to 1)
StopfsFirst(fs) == Len(fs)
StopfsHookForward(fs, i) == fs[Len(fs) + 1 - i]
StopfsHook(fs, i) == fs[i]
StopfsLoopEndsEarly(i) == i < 2
StopfsLoopEnds(i) == i < 1

\* where a thread is once its Stop or Shutdown call has returned
After(t) == IF t \in Callers THEN "idle" ELSE "exit"

(***************************************************************************)
(* The callers' calls.                                                     *)
(***************************************************************************)
CanCall(t) == t \in Callers /\ pc[t] = "idle" /\ ops < MaxOps

\* r.Stop() is called
CallStop(t) ==
    /\ CanCall(t)
    /\ pc' = [pc EXCEPT ![t] = "shutRun"]
    /\ err' = [err EXCEPT ![t] = "nil"]
    /\ trig' = (trig \/ Started)
    /\ callStarted' = Started
    /\ ops' = ops + 1
    /\ UNCHANGED <<routevars, rHandler, server, stopfs, hook, shut, stop, done, closes,
                   onShutdown, inShutdown, cbPending, srvReturned, viaShut,
                   len, mainPanic, served, hlog, seqLen>>

\* r.Shutdown(ctx) is called: with r.Server == nil it returns the error
CallShutdown(t) ==
    /\ CanCall(t)
    /\ IF ~server.set
       THEN /\ err' = [err EXCEPT ![t] = "not started"]
            /\ pc' = [pc EXCEPT ![t] = After(t)]
       ELSE /\ err' = [err EXCEPT ![t] = "nil"]
            /\ pc' = [pc EXCEPT ![t] = "srvShutdown"]
    /\ trig' = (trig \/ Started)
    /\ callStarted' = Started
    /\ ops' = ops + 1
    /\ UNCHANGED <<routevars, rHandler, server, stopfs, hook, shut, stop, done, closes,
                   onShutdown, inShutdown, cbPending, srvReturned, viaShut,
                   len, mainPanic, served, hlog, seqLen>>

\* r.Wait() is called
CallWait(t) ==
    /\ t \in AllWaiters
    /\ pc[t] = "idle"
    /\ pc' = [pc EXCEPT ![t] = "wait"]
    /\ UNCHANGED <<routevars, rHandler, server, stopfs, hook, shut, stop, done, closes,
                   onShutdown, inShutdown, cbPending, srvReturned, viaShut,
                   len, err, mainPanic, served, hlog, seqLen, trig, ops,
                   callStarted>>

\* Wait: <-r.done
WaitReturn(t) ==
    /\ pc[t] = "wait"
    /\ done
    /\ pc' = [pc EXCEPT ![t] = "exit"]
    /\ UNCHANGED <<routevars, rHandler, server, stopfs, hook, shut, stop, done, closes,
                   onShutdown, inShutdown, cbPending, srvReturned, viaShut,
                   len, err, mainPanic, served, hlog, seqLen, trig, ops,
                   callStarted>>

\* r.RegisterOnShutdown(f) is called, for a new function f
CallRegister ==
    /\ FreshHooks # {}
    /\ LET f == CHOOSE h \in FreshHooks : \A g \in FreshHooks : h <= g
       IN  stopfs' = RegisterOnShutdown(stopfs, f)
    /\ UNCHANGED <<routevars, rHandler, server, hook, shut, stop, done, closes,
                   onShutdown, inShutdown, cbPending, srvReturned, pc,
                   viaShut, len, err, mainPanic, served, hlog, seqLen, trig,
                   ops,
                   callStarted>>

(***************************************************************************)
(* Stop, Shutdown, runShutdown, runStopfs.                                 *)
(***************************************************************************)
\* Stop: r.shut.Run(). The first caller executes runShutdown, which calls
\* Shutdown(context.Background()): it returns at once when r.Server == nil.
\* A caller finding r.shut done returns; one finding it running waits.
ShutRun(t) ==
    /\ pc[t] = "shutRun"
    /\ \/ /\ OnceIdle(shut)
          /\ cbPending' = 0
          /\ IF ~server.set
             THEN /\ shut' = "done"
                  /\ pc' = [pc EXCEPT ![t] = After(t)]
                  /\ UNCHANGED viaShut
             ELSE /\ shut' = "running"
                  /\ viaShut' = [viaShut EXCEPT ![t] = TRUE]
                  /\ pc' = [pc EXCEPT ![t] = "srvShutdown"]
       \/ /\ OnceDone(shut)
          /\ pc' = [pc EXCEPT ![t] = After(t)]
          /\ UNCHANGED <<shut, viaShut, cbPending>>
    /\ UNCHANGED <<routevars, rHandler, server, stopfs, hook, stop, done, closes,
                   onShutdown, inShutdown, srvReturned, len, err, mainPanic,
                   served, hlog, seqLen, trig, ops,
                   callStarted>>

\* a Shutdown that goes on to r.stop.Run() without the server's Shutdown
ShutdownSkipsServer(t) ==
    /\ pc[t] = "srvShutdown"
    /\ pc' = [pc EXCEPT ![t] = "stopRun"]
    /\ UNCHANGED <<routevars, rHandler, server, stopfs, hook, shut, stop, done, closes,
                   onShutdown, inShutdown, cbPending, srvReturned, viaShut,
                   len, err, mainPanic, served, hlog, seqLen, trig, ops,
                   callStarted>>

\* http.Server.Shutdown begins: the server stops serving and starts one
\* goroutine per registered callback
ServerShutdownBegin(t) ==
    /\ pc[t] = "srvShutdown"
    /\ inShutdown' = TRUE
    /\ cbPending' = IF OnceIdle(shut) THEN cbPending + onShutdown ELSE cbPending
    /\ pc' = [pc EXCEPT ![t] = "srvShutdownWait"]
    /\ UNCHANGED <<routevars, rHandler, server, stopfs, hook, shut, stop, done, closes,
                   onShutdown, srvReturned, viaShut, len, err, mainPanic,
                   served, hlog, seqLen, trig, ops,
                   callStarted>>

\* http.Server.Shutdown returns: nil, or an error (the context's deadline);
\* runShutdown drops the error, Shutdown returns it in the end
ServerShutdownEnd(t) ==
    /\ pc[t] = "srvShutdownWait"
    /\ \E e \in {"nil", "deadline"} :
          err' = IF viaShut[t] THEN err ELSE [err EXCEPT ![t] = e]
    /\ srvReturned' = TRUE
    /\ pc' = [pc EXCEPT ![t] = "stopRun"]
    /\ UNCHANGED <<routevars, rHandler, server, stopfs, hook, shut, stop, done, closes,
                   onShutdown, inShutdown, cbPending, viaShut, len, mainPanic,
                   served, hlog, seqLen, trig, ops,
                   callStarted>>

\* Shutdown returns to its caller; inside runShutdown that ends r.shut.Run()
ShutdownReturns(t) ==
    /\ pc' = [pc EXCEPT ![t] = After(t)]
    /\ viaShut' = [viaShut EXCEPT ![t] = FALSE]
    /\ shut' = IF viaShut[t] THEN "done" ELSE shut

\* a Shutdown that calls r.runStopfs() itself, not through r.stop
StopRunDirect(t) ==
    /\ pc[t] = "stopRun"
    /\ \/ /\ ~OnceBusy(stop)
          /\ stop' = "running"
          /\ len' = [len EXCEPT ![t] = StopfsFirst(stopfs)]
          /\ seqLen' = Len(stopfs)
          /\ pc' = [pc EXCEPT ![t] = "loop"]
          /\ UNCHANGED <<shut, viaShut>>
       \/ /\ OnceDone(stop)
          /\ ShutdownReturns(t)
          /\ UNCHANGED <<stop, len, seqLen>>
    /\ UNCHANGED <<routevars, rHandler, server, stopfs, hook, done, closes, onShutdown,
                   inShutdown, cbPending, srvReturned, err, mainPanic, served,
                   hlog, trig, ops,
                   callStarted>>

\* a Shutdown whose r.stop.Run() goes through the hooks again whenever some
\* were registered since the sequence
StopRunAgain(t) ==
    /\ pc[t] = "stopRun"
    /\ \/ /\ OnceIdle(stop) \/ (OnceDone(stop) /\ Len(stopfs) > seqLen)
          /\ stop' = "running"
          /\ len' = [len EXCEPT ![t] = StopfsFirst(stopfs)]
          /\ seqLen' = IF OnceIdle(stop) THEN Len(stopfs) ELSE seqLen
          /\ pc' = [pc EXCEPT ![t] = "loop"]
          /\ UNCHANGED <<shut, viaShut>>
       \/ /\ OnceDone(stop)
          /\ ShutdownReturns(t)
          /\ UNCHANGED <<stop, len, seqLen>>
    /\ UNCHANGED <<routevars, rHandler, server, stopfs, hook, done, closes, onShutdown,
                   inShutdown, cbPending, srvReturned, err, mainPanic, served,
                   hlog, trig, ops,
                   callStarted>>

\* Shutdown: r.stop.Run(). The first caller enters runStopfs; a caller
\* finding r.stop done returns; one finding it running waits.
StopRun(t) ==
    /\ pc[t] = "stopRun"
    /\ \/ /\ OnceIdle(stop)
          /\ stop' = "running"
          /\ len' = [len EXCEPT ![t] = StopfsFirst(stopfs)]
          /\ seqLen' = Len(stopfs)
          /\ pc' = [pc EXCEPT ![t] = "loop"]
          /\ UNCHANGED <<shut, viaShut>>
       \/ /\ OnceDone(stop)
          /\ ShutdownReturns(t)
          /\ UNCHANGED <<stop, len, seqLen>>
    /\ UNCHANGED <<routevars, rHandler, server, stopfs, hook, done, closes, onShutdown,
                   inShutdown, cbPending, srvReturned, err, mainPanic, served,
                   hlog, trig, ops,
                   callStarted>>

\* runStopfs: f.Run() of the next hook; or, the loop over, the deferred
\* close(r.done), the end of r.stop.Run() and the return of Shutdown
StopfsLoop(t) ==
    /\ pc[t] = "loop"
    /\ IF StopfsLoopEnds(len[t])
       THEN /\ done' = TRUE
            /\ closes' = closes + 1
            /\ stop' = "done"
            /\ ShutdownReturns(t)
            /\ UNCHANGED <<hook, hlog>>
       ELSE LET f == StopfsHook(stopfs, len[t])
            IN  /\ OnceIdle(hook[f].st)
                /\ hook' = [hook EXCEPT ![f] = [st |-> "running",
                                                runs |-> hook[f].runs + 1]]
                /\ hlog' = Append(hlog, <<"begin", f>>)
                /\ pc' = [pc EXCEPT ![t] = "inHook"]
                /\ UNCHANGED <<done, closes, stop, shut, viaShut>>
    /\ UNCHANGED <<routevars, rHandler, server, stopfs, onShutdown, inShutdown,
                   cbPending, srvReturned, len, err, mainPanic, served,
                   seqLen, trig, ops,
                   callStarted>>

\* the hook's function returns; _len--
HookReturn(t) ==
    /\ pc[t] = "inHook"
    /\ LET f == StopfsHook(stopfs, len[t])
       IN  /\ hook' = [hook EXCEPT ![f].st = "done"]
           /\ hlog' = Append(hlog, <<"end", f>>)
    /\ len' = [len EXCEPT ![t] = len[t] - 1]
    /\ pc' = [pc EXCEPT ![t] = "loop"]
    /\ UNCHANGED <<routevars, rHandler, server, stopfs, shut, stop, done, closes,
                   onShutdown, inShutdown, cbPending, srvReturned, viaShut,
                   err, mainPanic, served, seqLen, trig, ops,
                   callStarted>>

\* a callback goroutine of the server runs r.Stop() and finds r.shut idle
CbStop ==
    /\ cbPending > 0
    /\ OnceIdle(shut)
    /\ pc["cb"] = "unborn"
    /\ pc' = [pc EXCEPT !["cb"] = "shutRun"]
    /\ cbPending' = cbPending - 1
    /\ UNCHANGED <<routevars, rHandler, server, stopfs, hook, shut, stop, done, closes,
                   onShutdown, inShutdown, srvReturned, viaShut, len, err,
                   mainPanic, served, hlog, seqLen, trig, ops,
                   callStarted>>

(***************************************************************************)
(* Start and startServer, on the goroutine main.                           *)
(***************************************************************************)
\* Start: r.Server after the nil tests (a missing Server, Handler or Addr is
\* filled in from the Runner and the argument)
StartFill(srv, h, addr) ==
    LET s1 == IF ~srv.set THEN [set |-> TRUE, handler |-> h, addr |-> addr]
              ELSE srv
        s2 == IF ~s1.handler THEN [s1 EXCEPT !.handler = h] ELSE s1
    IN  IF s2.addr = "" THEN [s2 EXCEPT !.addr = addr] ELSE s2

\* Start: the pre-set Server.Addr is not the one passed
StartAddrConflict(srv, addr) == srv.set /\ srv.addr # "" /\ srv.addr # addr

\* startServer: server.Handler == nil
StartNoHandler(srv) == ~srv.handler

\* r.Start(addr) up to the call of startServer
Start ==
    /\ pc["main"] = "created"
    /\ server' = StartFill(server, rHandler, StartAddr)
    /\ IF StartAddrConflict(server, StartAddr)
       THEN /\ mainPanic' = "addr"
            /\ pc' = [pc EXCEPT !["main"] = "exit"]
       ELSE /\ mainPanic' = mainPanic
            /\ pc' = [pc EXCEPT !["main"] = "startServer"]
    /\ UNCHANGED <<routevars, rHandler, stopfs, hook, shut, stop, done, closes,
                   onShutdown, inShutdown, cbPending, srvReturned, viaShut,
                   len, err, served, hlog, seqLen, trig, ops,
                   callStarted>>

\* startServer up to the serving call: defer r.Stop(); the handler test,
\* whose panic runs the deferred Stop; the registration of r.Stop with the
\* server and of the log hook; go handleSignals
StartServer ==
    /\ pc["main"] = "startServer"
    /\ IF StartNoHandler(server)
       THEN /\ mainPanic' = "handler"
            /\ pc' = [pc EXCEPT !["main"] = "shutRun"]
            /\ UNCHANGED <<onShutdown, stopfs>>
       ELSE /\ onShutdown' = onShutdown + 1
            /\ stopfs' = RegisterOnShutdown(stopfs, LogHook)
            /\ pc' = [pc EXCEPT !["main"] = "listen", !["sig"] = "waitSignal"]
            /\ UNCHANGED mainPanic
    /\ UNCHANGED <<routevars, rHandler, server, hook, shut, stop, done, closes,
                   inShutdown, cbPending, srvReturned, viaShut, len, err,
                   served, hlog, seqLen, trig, ops,
                   callStarted>>

\* server.ListenAndServe[TLS] is called: it returns at once when the server
\* was shut down already or cannot listen, and serves otherwise; when it
\* returns the deferred r.Stop() runs
ListenAndServe ==
    /\ pc["main"] = "listen"
    /\ served' = TRUE
    /\ \/ /\ ~inShutdown
          /\ pc' = [pc EXCEPT !["main"] = "serving"]
          /\ UNCHANGED <<err, trig>>
       \/ /\ err' = [err EXCEPT !["main"] =
                        IF inShutdown THEN "closed" ELSE "listen"]
          /\ pc' = [pc EXCEPT !["main"] = "shutRun"]
          /\ trig' = TRUE
    /\ UNCHANGED <<routevars, rHandler, server, stopfs, hook, shut, stop, done, closes,
                   onShutdown, inShutdown, cbPending, srvReturned, viaShut,
                   len, mainPanic, hlog, seqLen, ops,
                   callStarted>>

\* the serving call returns because the server is shutting down
ServeClosed ==
    /\ pc["main"] = "serving"
    /\ inShutdown
    /\ err' = [err EXCEPT !["main"] = "closed"]
    /\ pc' = [pc EXCEPT !["main"] = "shutRun"]
    /\ trig' = TRUE
    /\ UNCHANGED <<routevars, rHandler, server, stopfs, hook, shut, stop, done, closes,
                   onShutdown, inShutdown, cbPending, srvReturned, viaShut,
                   len, mainPanic, served, hlog, seqLen, ops,
                   callStarted>>

\* the serving call returns with an error of the listener
ServeFails ==
    /\ pc["main"] = "serving"
    /\ ~inShutdown
    /\ err' = [err EXCEPT !["main"] = "listen"]
    /\ pc' = [pc EXCEPT !["main"] = "shutRun"]
    /\ trig' = TRUE
    /\ UNCHANGED <<routevars, rHandler, server, stopfs, hook, shut, stop, done, closes,
                   onShutdown, inShutdown, cbPending, srvReturned, viaShut,
                   len, mainPanic, served, hlog, seqLen, ops,
                   callStarted>>

\* handleSignals: a configured signal arrives; r.Stop() is called
Signal ==
    /\ pc["sig"] = "waitSignal"
    /\ pc' = [pc EXCEPT !["sig"] = "shutRun"]
    /\ trig' = TRUE
    /\ UNCHANGED <<routevars, rHandler, server, stopfs, hook, shut, stop, done, closes,
                   onShutdown, inShutdown, cbPending, srvReturned, viaShut,
                   len, err, mainPanic, served, hlog, seqLen, ops,
                   callStarted>>

(***************************************************************************)
(* The Runner's next-state relation.                                       *)
(***************************************************************************)
\* what the environment does: calls, signals, a failing listener
REnv ==
    \/ \E t \in Callers : CallStop(t)
    \/ \E t \in Callers : CallShutdown(t)
    \/ \E t \in Waiters : CallWait(t)
    \/ CallRegister
    \/ Start
    \/ Signal
    \/ ServeFails

\* what the program does once called
RStep ==
    \/ \E t \in Threads : ShutRun(t)
    \/ \E t \in Threads : ServerShutdownBegin(t)
    \/ \E t \in Threads : ServerShutdownEnd(t)
    \/ \E t \in Threads : StopRun(t)
    \/ \E t \in Threads : StopfsLoop(t)
    \/ \E t \in Threads : HookReturn(t)
    \/ \E t \in Threads : WaitReturn(t)
    \/ CbStop
    \/ StartServer
    \/ ListenAndServe
    \/ ServeClosed

RNext == REnv \/ RStep

\* the Runner with several goroutines in Wait and no hook of the user
WaitEnv ==
    \/ \E t \in Callers : CallStop(t)
    \/ \E t \in Callers : CallShutdown(t)
    \/ \E t \in AllWaiters : CallWait(t)
    \/ Start
    \/ Signal
    \/ ServeFails

WaitNext == WaitEnv \/ RStep

(***************************************************************************)
(* The Route builder (src/route.go).                                       *)
(*                                                                         *)
(* A Handler is modelled by what it does when called: the list of the      *)
(* middleware layers around it, outermost first, and the terminal handler. *)
(* A layer is a user middleware, which logs its entry, calls the next      *)
(* handler and logs its exit, or the header check buildHeaderMiddleware    *)
(* returns, a closure over the Route it was built from.                    *)
(***************************************************************************)
\* route-local middleware of one Route
MaxMws == 2
\* header predicates of one Route
MaxHeaders == 2
\* Ship.MiddlewareMaxNum, as configured
MiddlewareMaxNum == 2
\* builder calls made on one Route
MaxCalls == 4
\* calls made on the Groups
MaxGroupCalls == 4

RouteIds == {"r1"}
Mws == {"A", "B"}
Methods == {"GET", "POST"}
\* AllMethods, in the order of the list
AllMethods == <<"GET", "POST">>
TheHandler == "H"
NilHandler == "nil"
Handlers == {NilHandler, TheHandler}
\* the method lists a method-selection call is made with
MethodLists == {<<"GET">>, <<"POST">>, <<"GET", "POST">>}
\* and those with no method and with a method twice
RegMethodLists == MethodLists \cup {<<>>, <<"GET", "GET">>}
Hosts == {"", "h"}
Names == {"", "n"}

\* Strings that the code takes apart are sequences of characters.
Slash == "/"
\* strings.TrimSuffix(s, "/")
TrimSuffix(s) ==
    IF Len(s) > 0 /\ s[Len(s)] = Slash THEN SubSeq(s, 1, Len(s) - 1) ELSE s
\* len(p) == 0 || p[0] != '/'
NoSlashPrefix(p) == Len(p) = 0 \/ p[1] # Slash
\* strings.Index(p, "//") != -1
HasDoubleSlash(p) == \E i \in 1..(Len(p) - 1) : p[i] = Slash /\ p[i + 1] = Slash

\* the path of the Route of the request-serving behaviours
ThePath == <<"/", "p">>
\* the prefixes and paths Routes are made with
RegPrefixes == {<<>>, <<"x">>, <<"/", "g", "/">>}
RegPaths == {<<"/", "p">>, <<"/", "/", "p">>, <<"p">>, <<>>}
\* header names as written by the application and the request header names
RawKeys == {"x-a", "X-B"}
HeaderKeys == {"X-A", "X-B"}
\* the value lists HasHeader is called with
ValueLists == {<<>>, <<"v1">>, <<"v1", "v2">>}
\* a request carries, per header name, no header or a header with a value
Absent == "<absent>"
HeaderValues == {"", "v1", "v2"}
Requests == [HeaderKeys -> {Absent} \cup HeaderValues]

NoRoute == [set |-> FALSE]
NoResp == [set |-> FALSE]
NoGroup == [set |-> FALSE]
\* the Groups, in the order they are made
GroupSeq == <<"g0", "g1", "g2">>
GroupIds == {GroupSeq[i] : i \in 1..Len(GroupSeq)}
\* the group of a Route made by the Ship, the parent of a Group made by it
NoGroupId == "nil"
\* the prefix of the Ship
ShipPrefix == <<>>
\* the prefixes Groups are made with
GroupPrefixes == {<<>>, <<"/">>, <<"a">>, <<"/", "a">>, <<"/", "a", "/">>,
                  <<"/", "/">>}
\* the middleware lists Groups are made with
GroupMwLists == {<<>>, <<"B">>}

\* http.CanonicalHeaderKey, on the names used here
CanonicalHeaderKey(k) == IF k = "x-a" THEN "X-A" ELSE k

\* Context.GetHeader: the value of the request header, "" without the header
GetHeader(req, k) == IF req[k] = Absent THEN "" ELSE req[k]

\* newRoute panics for an empty path and for one not starting with '/'
newRoutePanics(path) == NoSlashPrefix(path)
\* newRoute: the Route's path is the prefix without its trailing '/'
\* followed by the path; it starts with a copy of the middleware given
newRoute(g, prefix, host, path, ms) ==
    [set |-> TRUE, group |-> g, host |-> host,
     path |-> TrimSuffix(prefix) \o path,
     name |-> "", mdwares |-> ms, headers |-> <<>>]

\* no route registered, no request served, no Group
TableInit ==
    /\ table = <<>>
    /\ resp = NoResp
    /\ rpanic = "none"
    /\ calls = 0
    /\ groups = [g \in GroupIds |-> NoGroup]
    /\ lastCall = [n |-> 0, op |-> "none"]

\* a Route made for ThePath with no prefix, host and middleware
RouteInit ==
    /\ routes = [r \in RouteIds |-> newRoute(NoGroupId, <<>>, "", ThePath, <<>>)]
    /\ TableInit

\* a Route made by newRoute from any prefix and path it accepts
RegInit ==
    /\ \E prefix \in RegPrefixes, path \in RegPaths :
          /\ ~newRoutePanics(path)
          /\ routes = [r \in RouteIds |-> newRoute(NoGroupId, prefix, "", path, <<>>)]
    /\ TableInit

\* the handler function passed to a method-selection call
Terminal(h) == [chain |-> <<>>, term |-> h]
\* middlewares[i](handler)
Wrap(m, h) == [h EXCEPT !.chain = <<m>> \o @]
UserMw(m) == [kind |-> "mw", id |-> m]

\* buildHeaderMiddleware: nil without headers, else a closure over the Route
NoMw == [kind |-> "nil"]
buildHeaderMiddleware(r, hs) ==
    IF Len(hs) = 0 THEN NoMw ELSE [kind |-> "hdr", route |-> r]

\* the header check at request time, from predicate i on: "next" or "reject"
RECURSIVE HeaderCheckFrom(_, _, _)
HeaderCheckFrom(hs, i, req) ==
    IF i > Len(hs) THEN "next"
    ELSE LET kv == hs[i]
             value == GetHeader(req, kv.Key)
         IN  IF Len(kv.Values) = 0
             THEN IF value = "" THEN "reject"
                  ELSE HeaderCheckFrom(hs, i + 1, req)
             ELSE IF \E n \in 1..Len(kv.Values) : kv.Values[n] = value
                  THEN "next"
                  ELSE "reject"
HeaderCheck(hs, req) == HeaderCheckFrom(hs, 1, req)

\* calling a handler: the events in order and the outcome. The header check
\* reads the headers its Route holds when the request is served (rts).
RECURSIVE Call(_, _, _, _)
Call(chain, term, req, rts) ==
    IF chain = <<>> THEN [trace |-> <<<<"call", term>>>>, out |-> "ok"]
    ELSE LET l == Head(chain)
         IN  IF l.kind = "mw"
             THEN LET in == Call(Tail(chain), term, req, rts)
                  IN  [trace |-> <<<<"enter", l.id>>>> \o in.trace
                                    \o <<<<"exit", l.id>>>>,
                       out |-> in.out]
             ELSE IF HeaderCheck(rts[l.route].headers, req) = "next"
                  THEN Call(Tail(chain), term, req, rts)
                  ELSE [trace |-> <<<<"reject", "400">>>>, out |-> "400"]
Serve(h, req, rts) == Call(h.chain, h.term, req, rts)

\* the header check put before r.mdwares
MiddlewaresHeaderFirst(r, ms, hs) ==
    LET m == buildHeaderMiddleware(r, hs)
        us == [i \in 1..Len(ms) |-> UserMw(ms[i])]
    IN  IF m = NoMw THEN us ELSE <<m>> \o us

\* addRoute: middlewares is r.mdwares, followed by the header check if any
Middlewares(r, ms, hs) ==
    LET m == buildHeaderMiddleware(r, hs)
        us == [i \in 1..Len(ms) |-> UserMw(ms[i])]
    IN  IF m = NoMw THEN us ELSE Append(us, m)

\* addRoute: for i := middlewaresLen - 1; i >= 0; i-- { handler = middlewares[i](handler) }
RECURSIVE ComposeForwardFrom(_, _, _)
ComposeForwardFrom(ms, i, h) ==
    IF i > Len(ms) THEN h ELSE ComposeForwardFrom(ms, i + 1, Wrap(ms[i], h))
ComposeForward(ms, h) == ComposeForwardFrom(ms, 1, h)
RECURSIVE ComposeFrom(_, _, _)
ComposeFrom(ms, i, h) ==
    IF i < 1 THEN h ELSE ComposeFrom(ms, i - 1, Wrap(ms[i], h))
Compose(ms, h) == ComposeFrom(ms, Len(ms), h)

\* Ship.addRoute: the handler is registered for (host, method, path); a
\* tuple registered already is rejected, fatally, and keeps its handler
Key(host, method, path) == <<host, method, path>>
Registered(tb) == DOMAIN tb
ShipAddRouteOverwrites(tb, k, e) ==
    [tb |-> [x \in Registered(tb) \cup {k} |-> IF x = k THEN e ELSE tb[x]],
     panic |-> "none"]
ShipAddRoute(tb, k, e) ==
    IF k \in Registered(tb) THEN [tb |-> tb, panic |-> "duplicate"]
    ELSE [tb |-> [x \in Registered(tb) \cup {k} |-> IF x = k THEN e ELSE tb[x]],
          panic |-> "none"]
\* addRoute: for _, method := range methods { r.ship.addRoute(...) }, from
\* method i on; a panic ends the loop
RECURSIVE AddMethods(_, _, _, _, _, _)
AddMethods(tb, host, path, methods, i, e) ==
    IF i > Len(methods) THEN [tb |-> tb, panic |-> "none"]
    ELSE LET x == ShipAddRoute(tb, Key(host, methods[i], path), e)
         IN  IF x.panic # "none" THEN x
             ELSE AddMethods(x.tb, host, path, methods, i + 1, e)

\* addRoute: the checks made before anything is registered, in their
\* order: "none" or the reason of the panic
AddRouteCheckAtMax(path, h, methods, n) ==
    IF h = NilHandler THEN "handler"
    ELSE IF Len(methods) = 0 THEN "methods"
    ELSE IF NoSlashPrefix(path) THEN "path"
    ELSE IF HasDoubleSlash(path) THEN "doubleslash"
    ELSE IF n >= MiddlewareMaxNum THEN "middlewares"
    ELSE "none"
AddRouteCheck(path, h, methods, n) ==
    IF h = NilHandler THEN "handler"
    ELSE IF Len(methods) = 0 THEN "methods"
    ELSE IF NoSlashPrefix(path) THEN "path"
    ELSE IF HasDoubleSlash(path) THEN "doubleslash"
    ELSE IF n > MiddlewareMaxNum THEN "middlewares"
    ELSE "none"

\* The behaviours examined build the routes, the program's registration
\* phase, and then serve one request.
CanBuild == rpanic = "none" /\ ~resp.set /\ calls < MaxCalls

\* a Use that also reaches the Routes cloned from or with the Route
UseShared(r, m) ==
    /\ CanBuild
    /\ Len(routes[r].mdwares) < MaxMws
    /\ routes' = [x \in DOMAIN routes |->
                    IF x = r \/ (/\ routes[x].set
                                 /\ routes[x].group = routes[r].group
                                 /\ routes[x].path = routes[r].path
                                 /\ Len(routes[x].mdwares) < MaxMws)
                    THEN [routes[x] EXCEPT !.mdwares = Append(@, m)]
                    ELSE routes[x]]
    /\ calls' = calls + 1
    /\ UNCHANGED <<rvars, table, resp, rpanic, groups, lastCall>>

\* r.Use(m)
Use(r, m) ==
    /\ CanBuild
    /\ Len(routes[r].mdwares) < MaxMws
    /\ routes' = [routes EXCEPT ![r].mdwares = Append(@, m)]
    /\ calls' = calls + 1
    /\ UNCHANGED <<rvars, table, resp, rpanic, groups, lastCall>>

\* r.NoMiddlewares()
NoMiddlewares(r) ==
    /\ CanBuild
    /\ routes' = [routes EXCEPT ![r].mdwares = <<>>]
    /\ calls' = calls + 1
    /\ UNCHANGED <<rvars, table, resp, rpanic, groups, lastCall>>

\* a Host that moves the registered routes of the Route to the new host
HostMovesRoutes(r, host) ==
    /\ CanBuild
    /\ routes' = [routes EXCEPT ![r].host = host]
    /\ table' = [k \in {Key(host, x[2], x[3]) : x \in Registered(table)} |->
                   table[CHOOSE x \in Registered(table) :
                            x[2] = k[2] /\ x[3] = k[3]]]
    /\ calls' = calls + 1
    /\ UNCHANGED <<rvars, resp, rpanic, groups, lastCall>>

\* r.Host(host)
Host(r, host) ==
    /\ CanBuild
    /\ routes' = [routes EXCEPT ![r].host = host]
    /\ calls' = calls + 1
    /\ UNCHANGED <<rvars, table, resp, rpanic, groups, lastCall>>

\* r.Name(name)
Name(r, name) ==
    /\ CanBuild
    /\ routes' = [routes EXCEPT ![r].name = name]
    /\ calls' = calls + 1
    /\ UNCHANGED <<rvars, table, resp, rpanic, groups, lastCall>>

\* r.HasHeader(k, vs...)
HasHeader(r, k, vs) ==
    /\ CanBuild
    /\ Len(routes[r].headers) < MaxHeaders
    /\ routes' = [routes EXCEPT ![r].headers =
                     Append(@, [Key |-> CanonicalHeaderKey(k), Values |-> vs])]
    /\ calls' = calls + 1
    /\ UNCHANGED <<rvars, table, resp, rpanic, groups, lastCall>>

\* r.Method(handler, methods...), and so r.GET(handler), ...: addRoute
Method(r, h, methods) ==
    /\ CanBuild
    /\ routes[r].set
    /\ LET ms == Middlewares(r, routes[r].mdwares, routes[r].headers)
           why == AddRouteCheck(routes[r].path, h, methods, Len(ms))
           x == AddMethods(table, routes[r].host, routes[r].path, methods, 1,
                           [route |-> r, name |-> routes[r].name,
                            handler |-> Compose(ms, Terminal(h)),
                            mdwares |-> routes[r].mdwares,
                            headers |-> routes[r].headers])
       IN  IF why # "none"
           THEN /\ rpanic' = why
                /\ UNCHANGED table
           ELSE /\ table' = x.tb
                /\ rpanic' = x.panic
    /\ calls' = calls + 1
    /\ lastCall' = [n |-> calls + 1, op |-> "Method", route |-> r, h |-> h,
                    methods |-> methods]
    /\ UNCHANGED <<rvars, routes, resp, groups>>

\* a request for a registered (host, method, path) is served
Request(k, req) ==
    /\ rpanic = "none"
    /\ ~resp.set
    /\ k \in Registered(table)
    /\ LET x == Serve(table[k].handler, req, routes)
       IN  resp' = [set |-> TRUE, key |-> k, req |-> req,
                    trace |-> x.trace, out |-> x.out]
    /\ UNCHANGED <<rvars, routes, table, rpanic, calls, groups, lastCall>>

(***************************************************************************)
(* Static files: Route.StaticFile and Route.serveFileMetadata.             *)
(***************************************************************************)
\* the methods of the requests made to a static file
StaticMethods == {"GET", "HEAD", "POST"}
\* the method lists of the Method calls made beside StaticFile
StaticMethodLists == {<<"GET">>, <<"HEAD">>, <<"POST">>}
\* the paths of the Routes StaticFile is called on
StaticPaths == {<<"/", "p">>, <<"/", ":", "p">>, <<"/", "*">>}
\* strings.Contains(path, c), for a one-character c
Contains(path, c) == \E i \in 1..Len(path) : path[i] = c

\* what the file system answers when the handler runs: whether os.Open,
\* f.Stat and io.Copy succeed, and whether the target is a directory
FileStates == [open : BOOLEAN, stat : BOOLEAN, dir : BOOLEAN, read : BOOLEAN]

\* func(ctx) { return ctx.File(filePath) }
FileHandler == "File"
\* func(ctx) { return r.serveFileMetadata(ctx, filePath) }
MetadataHandler == "Metadata"

\* the outcomes of a handler: an HTTPError of a status, the Context's
\* NotFoundHandler, or the headers set and ctx.NoContent(status)
HTTPError(status) == [status |-> status, headers |-> {}, body |-> FALSE]
NotFound == [status |-> "404", headers |-> {}, body |-> FALSE]
NoContent(status, hs) == [status |-> status, headers |-> hs, body |-> FALSE]
\* the outcome of a handler that is not examined
NoResult == [status |-> "none", headers |-> {}, body |-> FALSE]

\* a serveFileMetadata that answers for a directory as for a file
serveFileMetadataOfDir(fs) ==
    IF ~fs.open THEN HTTPError("500")
    ELSE IF ~fs.stat THEN HTTPError("500")
    ELSE IF ~fs.read THEN HTTPError("500")
    ELSE NoContent("200", {"Etag", "Content-Length"})
\* serveFileMetadata
serveFileMetadata(fs) ==
    IF ~fs.open THEN HTTPError("500")
    ELSE IF ~fs.stat THEN HTTPError("500")
    ELSE IF fs.dir THEN NotFound
    ELSE IF ~fs.read THEN HTTPError("500")
    ELSE NoContent("200", {"Etag", "Content-Length"})

\* r.addRoute(name, host, path, handler, methods...) on the table tb: the
\* table afterwards and "none" or the reason of the panic
addRoute(tb, r, name, host, path, h, methods) ==
    LET ms == Middlewares(r, routes[r].mdwares, routes[r].headers)
        why == AddRouteCheck(path, h, methods, Len(ms))
    IN  IF why # "none" THEN [tb |-> tb, panic |-> why]
        ELSE AddMethods(tb, host, path, methods, 1,
                        [route |-> r, name |-> name,
                         handler |-> Compose(ms, Terminal(h)),
                         mdwares |-> routes[r].mdwares,
                         headers |-> routes[r].headers])

\* r.StaticFile(filePath): the panic for a path with parameters, then
\* addRoute for GET and addRoute for HEAD
StaticFile(r) ==
    /\ CanBuild
    /\ routes[r].set
    /\ LET rt == routes[r]
           g == addRoute(table, r, "", rt.host, rt.path, FileHandler, <<"GET">>)
           hd == addRoute(g.tb, r, "", rt.host, rt.path, MetadataHandler,
                          <<"HEAD">>)
       IN  IF Contains(rt.path, ":") \/ Contains(rt.path, "*")
           THEN /\ rpanic' = "static"
                /\ UNCHANGED table
           ELSE IF g.panic # "none"
           THEN /\ rpanic' = g.panic
                /\ table' = g.tb
           ELSE /\ rpanic' = hd.panic
                /\ table' = hd.tb
    /\ calls' = calls + 1
    /\ lastCall' = [n |-> calls + 1, op |-> "StaticFile", route |-> r]
    /\ UNCHANGED <<rvars, routes, resp, groups>>

\* a request for a registered (host, method, path) is served while the file
\* system is in the state fs
StaticRequest(k, req, fs) ==
    /\ rpanic = "none"
    /\ ~resp.set
    /\ k \in Registered(table)
    /\ LET x == Serve(table[k].handler, req, routes)
           term == table[k].handler.term
       IN  resp' = [set |-> TRUE, key |-> k, req |-> req,
                    trace |-> x.trace, out |-> x.out, file |-> fs,
                    result |-> IF x.out = "ok" /\ term = MetadataHandler
                               THEN serveFileMetadata(fs)
                               ELSE NoResult]
    /\ UNCHANGED <<rvars, routes, table, rpanic, calls, groups, lastCall>>

\* a Route made for one of StaticPaths with no prefix, host and middleware
StaticInit ==
    /\ \E path \in StaticPaths :
          routes = [r \in RouteIds |-> newRoute(NoGroupId, <<>>, "", path, <<>>)]
    /\ TableInit

(***************************************************************************)
(* Groups (src/unnamed/part_001).                                          *)
(***************************************************************************)
\* newGroup: prefix = strings.TrimSuffix(prefix, "/"), then the two checks:
\* "none" or the reason of the panic
newGroupPanicsUntrimmed(prefix) ==
    IF Len(prefix) = 0 THEN "prefix empty"
    ELSE IF prefix[1] # Slash THEN "prefix slash"
    ELSE "none"
newGroupPanics(prefix) ==
    LET p == TrimSuffix(prefix)
    IN  IF Len(p) = 0 THEN "prefix empty"
        ELSE IF p[1] # Slash THEN "prefix slash"
        ELSE "none"
\* newGroup: the Group made, with a copy of the middleware given
newGroup(pprefix, prefix, ms) ==
    [set |-> TRUE, prefix |-> pprefix \o TrimSuffix(prefix), mdwares |-> ms]

\* the middleware Group and GroupNone pass to newGroup
InheritedMdwares(g, ms) == groups[g].mdwares \o ms
GroupMdwares(g, ms) == groups[g].mdwares \o ms
GroupNoneMdwares(g, ms) == ms

CanCallGroup == rpanic = "none" /\ calls < MaxGroupCalls
\* the Group made next
NextGroup(c) ==
    \E i \in 1..Len(GroupSeq) :
        /\ c = GroupSeq[i]
        /\ ~groups[c].set
        /\ \A j \in 1..(i - 1) : groups[GroupSeq[j]].set

\* newGroup called with the arguments given, for the parent p, making c
MakeGroup(op, p, c, pprefix, prefix, given, ms) ==
    /\ IF newGroupPanics(prefix) # "none"
       THEN /\ rpanic' = newGroupPanics(prefix)
            /\ UNCHANGED groups
       ELSE /\ groups' = [groups EXCEPT ![c] = newGroup(pprefix, prefix, ms)]
            /\ UNCHANGED rpanic
    /\ calls' = calls + 1
    /\ lastCall' = [n |-> calls + 1, op |-> op, parent |-> p, child |-> c,
                    pprefix |-> pprefix, prefix |-> prefix, ms |-> given]
    /\ UNCHANGED <<rvars, routes, table, resp>>

\* the Ship makes a Group: newGroup(s, s.Prefix, prefix, ms...)
NewGroup(c, prefix, ms) ==
    /\ CanCallGroup
    /\ NextGroup(c)
    /\ \A x \in GroupIds : ~groups[x].set
    /\ MakeGroup("newGroup", NoGroupId, c, ShipPrefix, prefix, ms, ms)

\* g.Group(prefix, ms...)
GroupGroup(g, c, prefix, ms) ==
    /\ CanCallGroup
    /\ groups[g].set
    /\ NextGroup(c)
    /\ MakeGroup("Group", g, c, groups[g].prefix, prefix, ms, GroupMdwares(g, ms))

\* g.GroupNone(prefix, ms...)
GroupNone(g, c, prefix, ms) ==
    /\ CanCallGroup
    /\ groups[g].set
    /\ NextGroup(c)
    /\ MakeGroup("GroupNone", g, c, groups[g].prefix, prefix, ms,
                 GroupNoneMdwares(g, ms))

\* a Use that reaches the Routes made from the Group
GroupUseShared(g, m) ==
    /\ CanCallGroup
    /\ groups[g].set
    /\ Len(groups[g].mdwares) < MaxMws
    /\ groups' = [groups EXCEPT ![g].mdwares = Append(@, m)]
    /\ routes' = [r \in RouteIds |->
                    IF routes[r].set /\ routes[r].group = g
                    THEN [routes[r] EXCEPT !.mdwares = Append(@, m)]
                    ELSE routes[r]]
    /\ calls' = calls + 1
    /\ lastCall' = [n |-> calls + 1, op |-> "Use", group |-> g, m |-> m]
    /\ UNCHANGED <<rvars, table, resp, rpanic>>

\* g.Use(m)
GroupUse(g, m) ==
    /\ CanCallGroup
    /\ groups[g].set
    /\ Len(groups[g].mdwares) < MaxMws
    /\ groups' = [groups EXCEPT ![g].mdwares = Append(@, m)]
    /\ calls' = calls + 1
    /\ lastCall' = [n |-> calls + 1, op |-> "Use", group |-> g, m |-> m]
    /\ UNCHANGED <<rvars, routes, table, resp, rpanic>>

\* g.Route(path): newRoute with the Group's prefix and middleware
GroupRoute(g, r, path) ==
    /\ CanCallGroup
    /\ groups[g].set
    /\ ~routes[r].set
    /\ IF newRoutePanics(path)
       THEN /\ rpanic' = "route path"
            /\ UNCHANGED routes
       ELSE /\ routes' = [routes EXCEPT ![r] =
                   newRoute(g, groups[g].prefix, "", path, groups[g].mdwares)]
            /\ UNCHANGED rpanic
    /\ calls' = calls + 1
    /\ lastCall' = [n |-> calls + 1, op |-> "Route", group |-> g, route |-> r]
    /\ UNCHANGED <<rvars, groups, table, resp>>

\* the Routes made when several builders are followed
IsoRouteIds == {"r1", "r2", "r3"}
\* r.New(): the fields of r, with copies of its middleware and headers
New(rt) ==
    [set |-> TRUE, group |-> rt.group, host |-> rt.host, path |-> rt.path,
     name |-> rt.name, mdwares |-> rt.mdwares, headers |-> rt.headers]
\* c := r.New()
RouteNew(r, c) ==
    /\ CanBuild
    /\ routes[r].set
    /\ ~routes[c].set
    /\ routes' = [routes EXCEPT ![c] = New(routes[r])]
    /\ calls' = calls + 1
    /\ lastCall' = [n |-> calls + 1, op |-> "New", route |-> r, clone |-> c]
    /\ UNCHANGED <<rvars, groups, table, resp, rpanic>>

\* no Group and no Route made yet, several Routes to come
IsoInit ==
    /\ routes = [r \in IsoRouteIds |-> NoRoute]
    /\ TableInit

\* a Group, the Routes made from it, their clones and what is called on them
IsoNext ==
    \/ \E c \in GroupIds, ms \in GroupMwLists : NewGroup(c, <<"/", "a">>, ms)
    \/ \E g \in GroupIds, m \in Mws : GroupUse(g, m)
    \/ \E g \in GroupIds, r \in IsoRouteIds : GroupRoute(g, r, ThePath)
    \/ \E r, c \in IsoRouteIds : RouteNew(r, c)
    \/ \E r \in IsoRouteIds, m \in Mws : routes[r].set /\ Use(r, m)
    \/ \E r \in IsoRouteIds : routes[r].set /\ NoMiddlewares(r)
    \/ \E r \in IsoRouteIds, k \in RawKeys :
         routes[r].set /\ HasHeader(r, k, <<"v1">>)

\* no Group and no Route made yet
GroupInit ==
    /\ routes = [r \in RouteIds |-> NoRoute]
    /\ TableInit

\* the Groups and the Routes made from them
GroupNext ==
    \/ \E c \in GroupIds, p \in GroupPrefixes, ms \in GroupMwLists :
         NewGroup(c, p, ms)
    \/ \E g, c \in GroupIds, p \in GroupPrefixes, ms \in GroupMwLists :
         GroupGroup(g, c, p, ms)
    \/ \E g, c \in GroupIds, p \in GroupPrefixes, ms \in GroupMwLists :
         GroupNone(g, c, p, ms)
    \/ \E g \in GroupIds, m \in Mws : GroupUse(g, m)
    \/ \E g \in GroupIds, r \in RouteIds, path \in RegPaths : GroupRoute(g, r, path)

\* the Route builder and the requests served
RouteNext ==
    \/ \E r \in RouteIds, m \in Mws : Use(r, m)
    \/ \E r \in RouteIds : NoMiddlewares(r)
    \/ \E r \in RouteIds, k \in RawKeys, vs \in ValueLists : HasHeader(r, k, vs)
    \/ \E r \in RouteIds, ml \in MethodLists : Method(r, TheHandler, ml)
    \/ \E h \in Hosts, m \in Methods, req \in Requests :
         Request(Key(h, m, ThePath), req)

\* the Route builder and the registration of its routes
RegNext ==
    \/ \E r \in RouteIds, m \in Mws : Use(r, m)
    \/ \E r \in RouteIds : NoMiddlewares(r)
    \/ \E r \in RouteIds, k \in RawKeys : HasHeader(r, k, <<>>)
    \/ \E r \in RouteIds, h \in Hosts : Host(r, h)
    \/ \E r \in RouteIds, n \in Names : Name(r, n)
    \/ \E r \in RouteIds, h \in Handlers, ml \in RegMethodLists : Method(r, h, ml)

\* the static files of a Route, the routes registered beside them and the
\* requests served
StaticNext ==
    \/ \E r \in RouteIds, m \in Mws : Use(r, m)
    \/ \E r \in RouteIds, ml \in StaticMethodLists : Method(r, TheHandler, ml)
    \/ \E r \in RouteIds : StaticFile(r)
    \/ \E m \in StaticMethods, path \in StaticPaths, fs \in FileStates :
         StaticRequest(Key("", m, path), [k \in HeaderKeys |-> Absent], fs)

(***************************************************************************)
(* The specifications.                                                     *)
(***************************************************************************)
vars == <<rvars, routevars>>

\* the Runner
Init == RInit /\ RouteInit
Spec == Init /\ [][RNext]_vars

\* the Runner with several goroutines in Wait
WaitSpec == Init /\ [][WaitNext]_vars

\* the Route builder
RouteSpecInit == RInit /\ rHandler = TRUE /\ server = NoServer /\ RouteInit
RouteSpec == RouteSpecInit /\ [][RouteNext]_vars

\* the registration of routes
RegSpecInit == RInit /\ rHandler = TRUE /\ server = NoServer /\ RegInit
RegSpec == RegSpecInit /\ [][RegNext]_vars

\* the static files
StaticSpecInit == RInit /\ rHandler = TRUE /\ server = NoServer /\ StaticInit
StaticSpec == StaticSpecInit /\ [][StaticNext]_vars

\* several Routes of one Group
IsoSpecInit == RInit /\ rHandler = TRUE /\ server = NoServer /\ IsoInit
IsoSpec == IsoSpecInit /\ [][IsoNext]_vars

\* the Groups
GroupSpecInit == RInit /\ rHandler = TRUE /\ server = NoServer /\ GroupInit
GroupSpec == GroupSpecInit /\ [][GroupNext]_vars

(***************************************************************************)
(* Claims about the Runner.                                                *)
(***************************************************************************)
\* the hooks registered before runStopfs began, in registration order
SeqHooks == IF seqLen < 0 THEN <<>> ELSE SubSeq(stopfs, 1, seqLen)
\* the hook events of a complete run of runStopfs over SeqHooks
ReverseRun == [k \in 1..(2 * Len(SeqHooks)) |->
                 <<IF k % 2 = 1 THEN "begin" ELSE "end",
                   SeqHooks[Len(SeqHooks) - ((k - 1) \div 2)]>>]
SeqHooksDone == seqLen >= 0 /\ \A i \in 1..Len(SeqHooks) :
                                   /\ hook[SeqHooks[i]].st = "done"
                                   /\ hook[SeqHooks[i]].runs = 1
\* the thread t is in a Stop or Shutdown call that returns in this step
Returns(t) == /\ pc[t] \in {"shutRun", "stopRun", "loop"}
              /\ pc'[t] = After(t)
              /\ t \in Callers => callStarted
\* the program has nothing left to do until the environment acts
Quiescent == ~ENABLED RStep

\* C1: the hooks registered before the shutdown sequence began are executed
\* in reverse registration order, each one returning before the next one
\* begins: the hook events are at every moment a prefix of
\* begin hn, end hn, ..., begin h1, end h1, and all of it once the gate is open.
C1_ReverseOrder ==
    /\ Len(hlog) <= Len(ReverseRun)
    /\ \A k \in 1..Len(hlog) : hlog[k] = ReverseRun[k]
    /\ done => hlog = ReverseRun
C1_Witness == done /\ seqLen = 3 /\ Len(hlog) = 6 /\ stopfs[2] = LogHook

\* C2: on a started Runner no hook function is ever executed twice and, once
\* a shutdown trigger has been handled (the signal goroutine's Stop has
\* returned, or Start has returned after its deferred Stop), every hook
\* registered up to startServer's own has been executed exactly once.
TriggerHandled == \/ pc["sig"] = "exit"
                  \/ (pc["main"] = "exit" /\ mainPanic = "none")
C2_ExactlyOnce ==
    /\ \A h \in HookIds : hook[h].runs <= 1
    /\ TriggerHandled =>
         \A i \in 1..Len(stopfs) :
            (\E j \in i..Len(stopfs) : stopfs[j] = LogHook)
               => hook[stopfs[i]].runs = 1

\* C3: when the gate is open, and so whenever a Wait has returned, every hook
\* registered before the shutdown sequence began has finished executing.
C3_WaitAfterHooks ==
    (done \/ \E w \in Waiters : pc[w] = "exit") =>
        /\ seqLen >= 0
        /\ \A i \in 1..Len(SeqHooks) : hook[SeqHooks[i]].st = "done"
C3_Witness == pc["w1"] = "exit" /\ seqLen = 3

\* C4: once a shutdown trigger occurred on the started Runner, the runner
\* does not come to rest before the gate is released: whenever the program
\* has nothing left to do, the gate is open.
C4_TriggerReleasesGate == (trig /\ Quiescent) => done

\* C5: whenever a Stop or Shutdown call on the started Runner returns (the
\* deferred Stop of Start included), the gate is open and all the hooks
\* have completed.
C5_ReturnAfterCompletion ==
    [][\A t \in Threads :
          (Returns(t) /\ Started) => (done' /\ SeqHooksDone')]_vars

\* C6: Stop and Shutdown on a Runner that was never started change nothing:
\* once such a call has returned no hook has run, the gate is closed and both
\* one-shot guards are still unused; and Shutdown returned the error.
C6_StopBeforeStartInert ==
    (~StartCalled /\ pc["c1"] = "idle") =>
        /\ OnceIdle(shut)
        /\ OnceIdle(stop)
        /\ ~done
        /\ \A h \in HookIds : hook[h].runs = 0
        /\ err["c1"] \in {"nil", "not started"}

\* C7: Start panics exactly when the address conflicts or no handler is set,
\* and a Start that panics makes no serving call, runs no hook and does not
\* release the gate.
C7_FailedStartInert ==
    /\ mainPanic = "addr" <=> (StartCalled /\ server.addr # StartAddr)
    /\ mainPanic = "handler" <=>
          (StartCalled /\ pc["main"] # "startServer"
             /\ server.addr = StartAddr /\ ~server.handler)
    /\ mainPanic # "none" =>
          (~served /\ pc["main"] \notin {"loop", "inHook"})

\* C20: a shutdown hook starts, and runStopfs is entered, only after a
\* call of the server's Shutdown has returned, with nil or with an error.
C20_HooksAfterServerShutdown ==
    /\ (\E h \in HookIds : hook[h].runs > 0) => srvReturned
    /\ Len(hlog) > 0 => srvReturned
    /\ ~OnceIdle(stop) => srvReturned
    /\ \A t \in Threads : pc[t] \in {"stopRun", "loop", "inHook"} => srvReturned
C20_Witness ==
    /\ srvReturned /\ done /\ mainPanic = "none"
    /\ pc["sig"] = "exit" /\ pc["main"] = "exit"
    /\ hook[LogHook].runs = 1 /\ Len(hlog) = 4

\* C22: whatever Stop and Shutdown calls, signals and returns of the serving
\* call are interleaved, close(r.done) is never executed a second time, the
\* gate is open exactly when it was executed once, no Wait returns while the
\* gate is closed, and once the gate is open every goroutine blocked in Wait,
\* however many there are, can return without any further step of the Runner.
C22_GateClosedOnce ==
    /\ closes <= 1
    /\ done <=> closes = 1
    /\ \A w \in AllWaiters : pc[w] = "exit" => done
    /\ done => \A w \in AllWaiters : pc[w] = "wait" => ENABLED WaitReturn(w)
    /\ (done /\ Quiescent) => \A w \in AllWaiters : pc[w] # "wait"
\* two goroutines are blocked in Wait when the gate is closed by the Runner
\* that a signal stops
C22_Witness ==
    /\ closes = 1
    /\ \A w \in AllWaiters : pc[w] = "wait"
    /\ pc["sig"] = "exit"

\* the hooks registered after runStopfs read the length of r.stopfs
LateHooks == IF seqLen < 0 THEN {}
             ELSE {stopfs[i] : i \in (seqLen + 1)..Len(stopfs)}

\* C24: the hooks a shutdown runs are exactly those registered before
\* runStopfs began: when the gate opens each of them has run once and no
\* other hook has run; a hook registered later is never executed, by no
\* later Stop or Shutdown call (once the gate is open no hook starts or ends
\* any more and the sequence is never begun again), and a goroutine in Wait
\* returns without it.
C24_LateHooksNeverRun ==
    /\ [](/\ \A h \in LateHooks : hook[h] = [st |-> "idle", runs |-> 0]
          /\ done => /\ SeqHooksDone
                     /\ \A h \in HookIds :
                          hook[h].runs = IF \E i \in 1..seqLen : stopfs[i] = h
                                         THEN 1 ELSE 0
          /\ (done /\ LateHooks # {}) =>
                \A w \in Waiters : pc[w] = "wait" => ENABLED WaitReturn(w))
    /\ [][done => /\ done'
                  /\ hook' = hook
                  /\ hlog' = hlog
                  /\ seqLen' = seqLen
                  /\ closes' = closes]_vars
\* the sequence ran the hook of Start and a hook registered after Start; a
\* hook registered afterwards has not run, while Wait has returned and a
\* later Shutdown call is at its r.stop.Run()
C24_Witness ==
    /\ done
    /\ seqLen = 2 /\ stopfs = <<LogHook, 1, 2>>
    /\ hook[2].runs = 0
    /\ pc["c1"] = "stopRun"
    /\ pc["w1"] = "exit"

(***************************************************************************)
(* Claims about the Route builder.                                         *)
(***************************************************************************)
\* the entry served by the last request
Reg == table[resp.key]
\* the entry events of the middleware ms, and their exit events
Enters(ms) == [i \in 1..Len(ms) |-> <<"enter", ms[i]>>]
Exits(ms) == [i \in 1..Len(ms) |-> <<"exit", ms[Len(ms) + 1 - i]>>]
\* the routes as they were when the entry e was registered
RoutesAt(e) ==
    [routes EXCEPT ![e.route].mdwares = e.mdwares, ![e.route].headers = e.headers]
\* the handler was called
Called(trace) == \E n \in 1..Len(trace) : trace[n][1] = "call"

\* C8: a request served by a registered handler enters the middleware the
\* Route held at registration in their order m1 .. mn, then reaches the
\* terminal handler (or the header check's rejection), then leaves the
\* middleware in the order mn .. m1; a handler registered with no
\* middleware and no header predicate is the terminal handler itself.
C8_MiddlewareOrder ==
    /\ resp.set =>
         resp.trace = Enters(Reg.mdwares)
                        \o <<IF resp.out = "ok" THEN <<"call", TheHandler>>
                                                ELSE <<"reject", "400">>>>
                        \o Exits(Reg.mdwares)
    /\ \A k \in Registered(table) :
         (table[k].mdwares = <<>> /\ table[k].headers = <<>>)
            => table[k].handler = Terminal(TheHandler)
C8_Witness ==
    /\ resp.set /\ resp.out = "ok"
    /\ Reg.mdwares = <<"A", "B">>
    /\ resp.trace = <<<<"enter", "A">>, <<"enter", "B">>, <<"call", TheHandler>>,
                      <<"exit", "B">>, <<"exit", "A">>>>

\* C9: a request served by a registered handler gets the response the
\* handler gives with the middleware and the header predicates the Route
\* held when the handler was registered, whatever Use, NoMiddlewares and
\* HasHeader calls were made on the Route since.
C9_RegisteredHandlerFrozen ==
    resp.set =>
        LET x == Serve(Reg.handler, resp.req, RoutesAt(Reg))
        IN  resp.out = x.out /\ resp.trace = x.trace

\* C10: for a Route with a single header predicate, unchanged since the
\* registration: without values the request passes exactly when it carries
\* the header; with values it passes exactly when it carries the header with
\* one of the values; a request that does not pass gets the bad-request
\* response and the handler is not called.
C10_SinglePredicate ==
    (resp.set /\ Len(Reg.headers) = 1 /\ routes[Reg.route].headers = Reg.headers) =>
        LET kv == Reg.headers[1]
            present == resp.req[kv.Key] # Absent
            passes == IF Len(kv.Values) = 0 THEN present
                      ELSE present /\ \E n \in 1..Len(kv.Values) :
                                         kv.Values[n] = resp.req[kv.Key]
        IN  /\ (resp.out = "ok") <=> passes
            /\ resp.out = "ok" => Called(resp.trace)
            /\ resp.out # "ok" => (resp.out = "400" /\ ~Called(resp.trace))

\* the reference evaluation of the predicates hs from predicate i on: in
\* registration order, a presence-only predicate rejects a request without
\* the header and otherwise leaves the decision to the next predicate; a
\* value-set predicate passes the request at once when its header has one
\* of the values and rejects it otherwise; the request passes at the end.
RECURSIVE RefDecideFrom(_, _, _)
RefDecideFrom(hs, i, req) ==
    IF i > Len(hs) THEN "pass"
    ELSE LET kv == hs[i]
             present == req[kv.Key] # Absent
         IN  IF Len(kv.Values) = 0
             THEN IF ~present THEN "reject" ELSE RefDecideFrom(hs, i + 1, req)
             ELSE IF present /\ \E n \in 1..Len(kv.Values) :
                                    kv.Values[n] = req[kv.Key]
                  THEN "pass"
                  ELSE "reject"

\* C11: for a Route with header predicates, unchanged since the
\* registration, every request is passed to the handler exactly when the
\* reference evaluation of the predicate list passes it, and is rejected
\* with the bad-request response otherwise.
C11_ShortCircuitReference ==
    (resp.set /\ Len(Reg.headers) >= 1 /\ routes[Reg.route].headers = Reg.headers) =>
        IF RefDecideFrom(Reg.headers, 1, resp.req) = "pass"
        THEN resp.out = "ok" /\ Called(resp.trace)
        ELSE resp.out = "400" /\ ~Called(resp.trace)

\* C21: a handler registered for a Route with header predicates has the
\* header check as its innermost layer, inside all the middleware of the
\* Route: a request enters every middleware before the check decides, the
\* terminal handler is called exactly when the check passes, and a
\* rejection is followed by the exit of every middleware, innermost first.
C21_HeaderCheckInnermost ==
    (resp.set /\ Len(Reg.headers) >= 1) =>
        LET n == Len(Reg.mdwares)
            chain == Reg.handler.chain
            passes == HeaderCheck(routes[Reg.route].headers, resp.req) = "next"
        IN  /\ Len(chain) = n + 1
            /\ \A i \in 1..n : chain[i] = UserMw(Reg.mdwares[i])
            /\ chain[n + 1].kind = "hdr"
            /\ Len(resp.trace) = 2 * n + 1
            /\ \A i \in 1..n : resp.trace[i] = <<"enter", Reg.mdwares[i]>>
            /\ resp.trace[n + 1] = IF passes THEN <<"call", TheHandler>>
                                             ELSE <<"reject", "400">>
            /\ \A i \in 1..n :
                 resp.trace[n + 1 + i] = <<"exit", Reg.mdwares[n + 1 - i]>>
            /\ Called(resp.trace) <=> passes
            /\ resp.out = IF passes THEN "ok" ELSE "400"
C21_Witness ==
    /\ resp.set /\ resp.out = "400"
    /\ Len(Reg.headers) = 1
    /\ resp.trace = <<<<"enter", "A">>, <<"reject", "400">>, <<"exit", "A">>>>

(***************************************************************************)
(* Claims about the registration of routes.                                *)
(***************************************************************************)
\* this step is a method-selection call
MethodCalled == lastCall' # lastCall /\ lastCall'.op = "Method"
\* the Route of the call, and the middleware it composes: those of the
\* Route and one more for the header check when the Route has predicates
CallRoute == routes[lastCall'.route]
ComposedCount ==
    Len(CallRoute.mdwares) + (IF Len(CallRoute.headers) > 0 THEN 1 ELSE 0)
\* the call is one that must fail before anything is registered
MustFail ==
    \/ lastCall'.h = NilHandler
    \/ lastCall'.methods = <<>>
    \/ CallRoute.path = <<>>
    \/ Head(CallRoute.path) # Slash
    \/ \E i \in 1..(Len(CallRoute.path) - 1) :
          CallRoute.path[i] = Slash /\ CallRoute.path[i + 1] = Slash
    \/ ComposedCount > MiddlewareMaxNum
\* the (host, method, path) tuples the call asks for
Requested ==
    {Key(CallRoute.host, lastCall'.methods[i], CallRoute.path) :
        i \in 1..Len(lastCall'.methods)}
FatalChecks == {"handler", "methods", "path", "doubleslash", "middlewares"}

C13_NoMethodsMeansAll ==
    [][(MethodCalled /\ lastCall'.methods = <<>> /\ lastCall'.h # NilHandler
          /\ ~NoSlashPrefix(CallRoute.path) /\ ~HasDoubleSlash(CallRoute.path)
          /\ ComposedCount <= MiddlewareMaxNum)
         => /\ rpanic' = "none"
            /\ \A i \in 1..Len(AllMethods) :
                 Key(CallRoute.host, AllMethods[i], CallRoute.path)
                    \in Registered(table')]_vars

\* C14: a registered (host, method, path) keeps its handler in every step;
\* a method-selection call that passes its checks and asks for a tuple
\* registered already, or for the same method twice, is rejected.
C14_DuplicateRejected ==
    [][/\ \A k \in Registered(table) :
             k \in Registered(table') /\ table'[k] = table[k]
       /\ (MethodCalled /\ ~MustFail
            /\ \/ Requested \cap Registered(table) # {}
               \/ \E i, j \in 1..Len(lastCall'.methods) :
                     i < j /\ lastCall'.methods[i] = lastCall'.methods[j])
          => rpanic' = "duplicate"]_vars
C14_Witness ==
    /\ rpanic = "duplicate"
    /\ lastCall.methods = <<"GET", "POST">>
    /\ \E k \in Registered(table) : k[2] = "POST" /\ table[k].name # routes["r1"].name

\* C19: a builder call other than a method-selection call leaves the route
\* table, and so the set of registered routes, the response and the Groups
\* as they were.
C19_MutatorsRegisterNothing ==
    [][(calls' # calls /\ ~MethodCalled) =>
          /\ table' = table
          /\ UNCHANGED <<resp, rpanic, groups>>]_vars
C19_Witness ==
    /\ rpanic = "none"
    /\ \E k \in Registered(table) :
          /\ k[1] # routes[table[k].route].host
          /\ table[k].name # routes[table[k].route].name
          /\ table[k].mdwares # routes[table[k].route].mdwares

\* a step is a call of StaticFile
StaticCalled == lastCall' # lastCall /\ lastCall'.op = "StaticFile"
\* the route StaticFile is called on has a path with ':' or '*'
StaticBadPath == \/ Contains(routes[lastCall'.route].path, ":")
                 \/ Contains(routes[lastCall'.route].path, "*")
StaticKey(m) == Key(routes[lastCall'.route].host, m, routes[lastCall'.route].path)
\* what a call of StaticFile registers: nothing, with a panic, on a path
\* with ':' or '*'; else, when it returns, a File handler for GET and a
\* Metadata handler for HEAD on the route's path, both new, and nothing
\* else, every earlier registration being kept; and it returns when neither
\* is registered yet and the middleware are not too many
StaticRegistration ==
    StaticCalled =>
        /\ StaticBadPath => (rpanic' = "static" /\ table' = table)
        /\ rpanic' = "none" =>
              /\ ~StaticBadPath
              /\ StaticKey("GET") \notin Registered(table)
              /\ StaticKey("HEAD") \notin Registered(table)
              /\ Registered(table') = Registered(table)
                                        \cup {StaticKey("GET"), StaticKey("HEAD")}
              /\ table'[StaticKey("GET")].handler.term = FileHandler
              /\ table'[StaticKey("HEAD")].handler.term = MetadataHandler
              /\ \A k \in Registered(table) : table'[k] = table[k]
        /\ (/\ ~StaticBadPath
            /\ StaticKey("GET") \notin Registered(table)
            /\ StaticKey("HEAD") \notin Registered(table)
            /\ Len(routes[lastCall'.route].mdwares) <= MiddlewareMaxNum)
              => rpanic' = "none"
\* the HEAD handler of a static file has answered a request
MetadataServed ==
    /\ resp.set
    /\ resp.out = "ok"
    /\ table[resp.key].handler.term = MetadataHandler
\* the answer for a regular file that was opened and stat-ed
MetadataOfFile == NoContent("200", {"Etag", "Content-Length"})

\* C25, as amended: StaticFile registers exactly two handlers on the
\* route's path, one for GET and one for HEAD, and nothing else; it fails
\* fatally, registering nothing, when the path contains ':' or '*'; the HEAD
\* handler answers with a server fault when opening or stat-ing the file
\* fails, with not-found when the target is a directory, with a server
\* fault when reading the content of the file fails, and otherwise sets
\* ETag and Content-Length and returns status 200 with no body.
C25_StaticFile ==
    /\ [][StaticRegistration]_vars
    /\ [](MetadataServed =>
            /\ resp.key[2] = "HEAD"
            /\ resp.result =
                 IF ~resp.file.open \/ ~resp.file.stat THEN HTTPError("500")
                 ELSE IF resp.file.dir THEN NotFound
                 ELSE IF ~resp.file.read THEN HTTPError("500")
                 ELSE MetadataOfFile)
\* StaticFile registered GET and HEAD beside a POST route and the HEAD
\* handler, behind a middleware, answered 200 for a readable file
C25_Witness ==
    /\ MetadataServed
    /\ Registered(table) = {Key("", m, <<"/", "p">>) : m \in StaticMethods}
    /\ resp.trace = <<<<"enter", "A">>, <<"call", MetadataHandler>>,
                      <<"exit", "A">>>>
    /\ resp.result = MetadataOfFile
\* C25, as stated: the HEAD handler answers with a server fault only when
\* opening or stat-ing the file fails, with not-found for a directory, and
\* in every other case sets the two headers and returns 200 with no body.
C25_StaticFileAsStated ==
    /\ [][StaticRegistration]_vars
    /\ [](MetadataServed =>
            /\ resp.key[2] = "HEAD"
            /\ resp.result =
                 IF ~resp.file.open \/ ~resp.file.stat THEN HTTPError("500")
                 ELSE IF resp.file.dir THEN NotFound
                 ELSE MetadataOfFile)

(***************************************************************************)
(* Claims about the Groups.                                                *)
(***************************************************************************)
\* this step is a call of newGroup: by the Ship, by Group or by GroupNone
GroupCalled ==
    lastCall' # lastCall /\ lastCall'.op \in {"newGroup", "Group", "GroupNone"}
\* this step is a call of Group.Use, of Group.Route
GroupUseCalled == lastCall' # lastCall /\ lastCall'.op = "Use"
GroupRouteCalled == lastCall' # lastCall /\ lastCall'.op = "Route"
\* a prefix without its trailing '/'
Trimmed(p) ==
    IF p # <<>> /\ p[Len(p)] = Slash THEN SubSeq(p, 1, Len(p) - 1) ELSE p
\* the prefix of the parent of the Group the call makes
ParentPrefix ==
    IF lastCall'.parent = NoGroupId THEN ShipPrefix
    ELSE groups[lastCall'.parent].prefix

\* C15: a call of newGroup panics exactly when the prefix given, without
\* its trailing '/', is empty or does not start with '/', so for "" and for
\* "/"; a call that panics makes no Group, and one that does not makes the
\* Group with the parent's prefix followed by the trimmed prefix.
C15_NewGroupPrefix ==
    [][GroupCalled =>
          LET t == Trimmed(lastCall'.prefix)
              bad == t = <<>> \/ Head(t) # Slash
              c == lastCall'.child
          IN  /\ bad <=> rpanic' # "none"
              /\ bad => groups' = groups
              /\ ~bad => /\ ~groups[c].set /\ groups'[c].set
                         /\ groups'[c].prefix = ParentPrefix \o t]_vars
C15_Witness ==
    /\ rpanic = "prefix empty"
    /\ lastCall.op = "Group"
    /\ lastCall.prefix = <<"/">>
    /\ groups["g1"].set

\* C16: the prefix of every Group is not empty, starts with '/' and does
\* not end with '/'.
C16_PrefixWellFormed ==
    \A g \in GroupIds :
        groups[g].set =>
            /\ groups[g].prefix # <<>>
            /\ Head(groups[g].prefix) = Slash
            /\ groups[g].prefix[Len(groups[g].prefix)] # Slash

\* C17: in every step each Group and each Route keeps the middleware list
\* it has, but for the Group of a Use call, which gets the middleware
\* appended; a Route made from a Group, and a child made by Group, start
\* with the list the Group has at that moment.
C17_UseAffectsLaterOnly ==
    [][/\ \A g \in GroupIds :
             groups[g].set =>
                groups'[g].mdwares =
                    IF GroupUseCalled /\ lastCall'.group = g
                    THEN Append(groups[g].mdwares, lastCall'.m)
                    ELSE groups[g].mdwares
       /\ \A r \in RouteIds :
             routes[r].set => routes'[r].mdwares = routes[r].mdwares
       /\ (GroupRouteCalled /\ rpanic' = "none") =>
             routes'[lastCall'.route].mdwares = groups[lastCall'.group].mdwares
       /\ (GroupCalled /\ lastCall'.op = "Group" /\ rpanic' = "none") =>
             LET n == Len(groups[lastCall'.parent].mdwares)
                 cms == groups'[lastCall'.child].mdwares
             IN  Len(cms) >= n /\ SubSeq(cms, 1, n) = groups[lastCall'.parent].mdwares
      ]_vars
C17_Witness ==
    /\ lastCall.op = "Use"
    /\ groups["g1"].set
    /\ routes["r1"].set /\ routes["r1"].group = lastCall.group
    /\ routes["r1"].mdwares # groups[lastCall.group].mdwares

\* C18: a child made by Group starts with the parent's middleware followed
\* by the middleware given, a child made by GroupNone with the middleware
\* given only; the prefix of both is the parent's prefix followed by the
\* trimmed prefix given.
C18_GroupInheritance ==
    [][(GroupCalled /\ lastCall'.op # "newGroup" /\ rpanic' = "none") =>
          LET p == lastCall'.parent
              c == lastCall'.child
          IN  /\ groups'[c].mdwares =
                    IF lastCall'.op = "Group"
                    THEN groups[p].mdwares \o lastCall'.ms
                    ELSE lastCall'.ms
              /\ groups'[c].prefix = groups[p].prefix \o Trimmed(lastCall'.prefix)
      ]_vars
C18_Witness ==
    /\ lastCall.op = "Group" /\ rpanic = "none"
    /\ groups[lastCall.parent].mdwares = <<"A">>
    /\ groups[lastCall.child].mdwares = <<"A", "B">>
    /\ groups[lastCall.child].prefix = <<"/", "a", "/", "a">>


(***************************************************************************)
(* Claims about several Routes of one Group.                               *)
(***************************************************************************)
\* a step is a call of Use, NoMiddlewares or HasHeader on a Route: the only
\* calls that leave lastCall alone
RouteMutated == lastCall' = lastCall /\ calls' # calls
\* a step is a call of New
NewCalled == lastCall' # lastCall /\ lastCall'.op = "New"

\* C23: a call of Use, NoMiddlewares or HasHeader on a Route changes the
\* middleware or the header list of that one Route and nothing of any Group,
\* of another Route of the same Group, of a clone made from it with New or
\* of the Route it was cloned from; a Route made from a Group starts with
\* the Group's middleware and a clone with the lists of its original, which
\* the call of New leaves as they were.
C23_RoutesIsolated ==
    [][/\ RouteMutated =>
            /\ groups' = groups
            /\ \E r \in IsoRouteIds :
                  /\ routes[r].set
                  /\ [routes'[r] EXCEPT !.mdwares = routes[r].mdwares,
                                         !.headers = routes[r].headers]
                        = routes[r]
                  /\ \A x \in IsoRouteIds \ {r} : routes'[x] = routes[x]
       /\ NewCalled =>
            /\ groups' = groups
            /\ routes'[lastCall'.clone].mdwares = routes[lastCall'.route].mdwares
            /\ routes'[lastCall'.clone].headers = routes[lastCall'.route].headers
            /\ \A x \in IsoRouteIds \ {lastCall'.clone} : routes'[x] = routes[x]
       /\ GroupRouteCalled =>
            /\ groups' = groups
            /\ routes'[lastCall'.route].mdwares = groups[lastCall'.group].mdwares
            /\ \A x \in IsoRouteIds \ {lastCall'.route} : routes'[x] = routes[x]
      ]_vars
\* a Group with the middleware B, the Route r1 made from it and r3 cloned
\* from r1: Use(A) was called on the clone only
C23_Witness ==
    /\ lastCall.op = "New" /\ lastCall.route = "r1" /\ lastCall.clone = "r3"
    /\ groups["g0"].set /\ groups["g0"].mdwares = <<"B">>
    /\ routes["r1"].mdwares = <<"B">>
    /\ routes["r3"].mdwares = <<"B", "A">>

====
